---- MODULE Spec2Model ----
(***************************************************************************)
(* Knowledge retrieval and AI tool orchestration engine of the meeting     *)
(* backend: the embedding client (services/embeddingService.ts), the       *)
(* retrieval engine (services/ragService.ts), the tool dispatch layer      *)
(* (services/aiToolsService.ts), the store functions of the migrations     *)
(* and the background enrichment scheduler (index.ts).                     *)
(*                                                                         *)
(* Conventions.  A nullable column or value is a set with at most one      *)
(* element: {} is NULL, {v} is the value v.  A JavaScript object is a      *)
(* record; an absent (undefined) property is a key outside its DOMAIN.     *)
(* Similarities, distances and thresholds are integers in hundredths.      *)
(* An asynchronous function returns [kind, value, log]: kind "return" or   *)
(* "throw", and log the sequence of store requests it issued.              *)
(***************************************************************************)
EXTENDS Integers, Sequences, FiniteSets, TLC

VARIABLES
  knowledge,     \* the meeting_knowledge table: id -> row
  call,          \* the last engine entry point invoked, with its arguments
  env,           \* the outcomes the provider and the store gave to that call
  ret,           \* what the call gave back to its caller
  isProcessing,  \* EmbeddingService.isProcessing of each service instance
  pc,            \* position of each scheduler run
  batch,         \* pendingItems of each run
  idx,           \* loop position of each run inside its batch
  enriched,      \* result of Promise.all awaiting its store update, per run
  attempted,     \* ids handed to processKnowledgeItem, per run, in order
  failed,        \* ids whose processKnowledgeItem threw, per run, in order
  fetches,       \* number of get_knowledge_needing_embeddings calls issued
  invite_tokens, \* the invite_tokens table: token -> row
  consume,       \* the POST /public/invite-tokens/consume requests in flight
  now,           \* the server clock
  rooms,         \* the signaling server's rooms map: roomId -> room
  participants,  \* the signaling server's participants map: socket id -> participant
  sockets        \* each socket: its connection state and the rooms it joined

vars == <<knowledge, call, env, ret, isProcessing, pc, batch, idx, enriched,
          attempted, failed, fetches, invite_tokens, consume, now, rooms,
          participants, sockets>>

retrievalVars == <<call, env, ret>>
schedulerVars == <<isProcessing, pc, batch, idx, enriched, attempted, failed, fetches>>
inviteVars == <<invite_tokens, consume, now>>
signalingVars == <<rooms, participants, sockets>>

----------------------------------------------------------------------------
(* Nullable values *)

NULL == {}
Some(v) == {v}
IsNull(c) == c = {}
ValueOf(c) == CHOOSE v \in c : TRUE

(* Embedding vectors: two dimensions stand for the provider's 1536.  The   *)
(* chosen vectors have integer norms, which keeps cosine distances exact.  *)
Vectors == { <<1, 0>>, <<0, 1>>, <<3, 4>>, <<4, 3>>, <<-1, 0>>, <<0, -1>> }

Dot(a, b) == a[1] * b[1] + a[2] * b[2]
Norm(a) == CHOOSE n \in 0..10 : n * n = Dot(a, a)

\* pgvector's <=> operator: cosine distance, 0 (same direction) to 200.
CosineDistance(a, b) == 100 - ((100 * Dot(a, b)) \div (Norm(a) * Norm(b)))

----------------------------------------------------------------------------
(* Strings *)

LowerChars == "abcdefghijklmnopqrstuvwxyz"
UpperChars == "ABCDEFGHIJKLMNOPQRSTUVWXYZ"
DigitChars == "0123456789"

CharAt(s, i) == SubSeq(s, i, i)
CharIn(c, alphabet) == \E i \in 1..Len(alphabet) : CharAt(alphabet, i) = c
IndexIn(c, alphabet) == CHOOSE i \in 1..Len(alphabet) : CharAt(alphabet, i) = c

LowerChar(c) == IF CharIn(c, UpperChars) THEN CharAt(LowerChars, IndexIn(c, UpperChars)) ELSE c
UpperChar(c) == IF CharIn(c, LowerChars) THEN CharAt(UpperChars, IndexIn(c, LowerChars)) ELSE c

RECURSIVE ToLowerCase(_)
ToLowerCase(s) ==
  IF s = "" THEN "" ELSE LowerChar(CharAt(s, 1)) \o ToLowerCase(SubSeq(s, 2, Len(s)))

RECURSIVE ToUpperCase(_)
ToUpperCase(s) ==
  IF s = "" THEN "" ELSE UpperChar(CharAt(s, 1)) \o ToUpperCase(SubSeq(s, 2, Len(s)))

\* String.prototype.includes
Includes(s, needle) ==
  \E i \in 1..(Len(s) - Len(needle) + 1) : SubSeq(s, i, i + Len(needle) - 1) = needle

\* `${n}` for a natural number.
RECURSIVE NatToString(_)
NatToString(n) ==
  IF n < 10 THEN CharAt(DigitChars, n + 1)
  ELSE NatToString(n \div 10) \o CharAt(DigitChars, (n % 10) + 1)

IsWordChar(c) == CharIn(c, LowerChars) \/ CharIn(c, UpperChars) \/ CharIn(c, DigitChars)

\* The lower-cased words of a text, split at every non-alphanumeric character.
RECURSIVE WordsFrom(_, _, _)
WordsFrom(s, i, cur) ==
  IF i > Len(s)
    THEN IF cur = "" THEN {} ELSE {cur}
    ELSE IF IsWordChar(CharAt(s, i))
           THEN WordsFrom(s, i + 1, cur \o LowerChar(CharAt(s, i)))
           ELSE (IF cur = "" THEN {} ELSE {cur}) \union WordsFrom(s, i + 1, "")

Words(s) == WordsFrom(s, 1, "")

\* String.prototype.split at every character of `separators`.
RECURSIVE SplitFrom(_, _, _, _)
SplitFrom(s, i, cur, separators) ==
  IF i > Len(s) THEN << cur >>
  ELSE IF CharIn(CharAt(s, i), separators)
    THEN << cur >> \o SplitFrom(s, i + 1, "", separators)
    ELSE SplitFrom(s, i + 1, cur \o CharAt(s, i), separators)

Split(s, separators) == SplitFrom(s, 1, "", separators)

Whitespace == " \n\t"

\* String.prototype.trim
RECURSIVE TrimStart(_)
TrimStart(s) ==
  IF s # "" /\ CharIn(CharAt(s, 1), Whitespace) THEN TrimStart(SubSeq(s, 2, Len(s))) ELSE s

RECURSIVE TrimEnd(_)
TrimEnd(s) ==
  IF s # "" /\ CharIn(CharAt(s, Len(s)), Whitespace)
    THEN TrimEnd(SubSeq(s, 1, Len(s) - 1)) ELSE s

Trim(s) == TrimEnd(TrimStart(s))

\* [...new Set(words)]: the first occurrence of each element, in order.
RECURSIVE Unique(_)
Unique(s) ==
  IF s = << >> THEN << >>
  ELSE LET front == Unique(SubSeq(s, 1, Len(s) - 1))
           last == s[Len(s)]
       IN  IF \E i \in 1..Len(front) : front[i] = last THEN front ELSE Append(front, last)

\* A sequence of the elements of the finite set S, greatest rank first.
RECURSIVE SortedDesc(_, _)
SortedDesc(S, rank) ==
  IF S = {} THEN << >>
  ELSE LET first == CHOOSE x \in S : \A y \in S : rank[y] <= rank[x]
       IN  << first >> \o SortedDesc(S \ {first}, rank)

Take(s, n) == SubSeq(s, 1, IF n < Len(s) THEN n ELSE Len(s))

Ids(rows) == [i \in 1..Len(rows) |-> rows[i].id]

----------------------------------------------------------------------------
(* services/embeddingService.ts *)

\* generateEmbedding: the empty array without a key or when the provider
\* call fails (it fails for an undefined input), else the provider's vector.
generateEmbedding(text, e) ==
  IF ~e.hasKey THEN << >>
  ELSE IF IsNull(text) \/ IsNull(e.embedding) THEN << >>
  ELSE ValueOf(e.embedding)

StopWords == { "this", "that", "with", "have", "will", "been", "from", "they", "them",
               "were", "said", "each", "which", "their", "time", "would", "there",
               "could", "other" }

\* text.replace(/[^\w\s]/g, ' ')
RECURSIVE ReplaceNonWord(_)
ReplaceNonWord(s) ==
  IF s = "" THEN ""
  ELSE LET c == CharAt(s, 1)
       IN  (IF IsWordChar(c) \/ c = "_" \/ CharIn(c, Whitespace) THEN c ELSE " ")
           \o ReplaceNonWord(SubSeq(s, 2, Len(s)))

simple_keyword_limit == 5
simple_keyword_min_length == 3

\* simpleKeywordExtraction.  split(/\s+/) gives the runs between blanks;
\* the empty runs do not pass the length filter.
simpleKeywordExtraction(text) ==
  LET parts == Split(ReplaceNonWord(ToLowerCase(text)), Whitespace)
      words == SelectSeq(parts, LAMBDA word :
                 Len(word) > simple_keyword_min_length /\ word \notin StopWords)
  IN  Take(Unique(words), simple_keyword_limit)

\* extractKeywords: the provider's comma separated answer, trimmed and
\* lower-cased, or the local extraction without a key or on failure.
extractKeywords(text, e) ==
  IF ~e.hasKey \/ IsNull(e.keywordsCompletion) THEN simpleKeywordExtraction(text)
  ELSE LET parts == Split(ValueOf(e.keywordsCompletion), ",")
           keywords == [ i \in 1..Len(parts) |-> ToLowerCase(Trim(parts[i])) ]
       IN  SelectSeq(keywords, LAMBDA k : Len(k) > 0)

summary_max_length == 100
summary_cut == 97

LocalSummary(text) ==
  IF Len(text) > summary_max_length THEN SubSeq(text, 1, summary_cut) \o "..." ELSE text

\* generateSummary
generateSummary(text, e) ==
  IF ~e.hasKey \/ IsNull(e.summaryCompletion) THEN LocalSummary(text)
  ELSE Trim(ValueOf(e.summaryCompletion))

\* The three calls of processKnowledgeItem's Promise.all and the object it
\* sends to the store.  None of the three rejects.
EnrichmentOf(content, e) ==
  LET embedding == generateEmbedding(Some(content), e)
  IN  [ embedding |-> IF Len(embedding) > 0 THEN Some(embedding) ELSE NULL,
        keywords |-> Some(extractKeywords(content, e)),
        summary |-> Some(generateSummary(content, e)) ]

----------------------------------------------------------------------------
(* The knowledge store: table meeting_knowledge and its SQL functions *)

Meetings == { "M1", "M2" }
ContentTypes == { "fact", "context", "summary", "question", "answer" }
ItemIds == { "k1", "k2", "k3", "k4", "k5", "k6" }

\* Rows as the ingestion route and the enrichment leave them.  created_at is
\* a logical timestamp, distinct per row.
Pool ==
  [ k1 |-> [ id |-> "k1", meeting_id |-> "M1", content_type |-> "summary",
             content |-> "We decided to cap the budget at $50k",
             source |-> "user", created_at |-> 1,
             embedding |-> Some(<<3, 4>>),
             keywords |-> Some(<<"budget", "decided">>),
             summary |-> Some("Budget capped at $50k") ],
    k2 |-> [ id |-> "k2", meeting_id |-> "M1", content_type |-> "fact",
             content |-> "Lunch menu for Friday",
             source |-> "user", created_at |-> 2,
             embedding |-> Some(<<0, 1>>),
             keywords |-> Some(<<"lunch", "menu">>),
             summary |-> Some("Lunch menu for Friday") ],
    k3 |-> [ id |-> "k3", meeting_id |-> "M2", content_type |-> "context",
             content |-> "Budget task deadline agreed",
             source |-> "ai", created_at |-> 3,
             embedding |-> Some(<<4, 3>>),
             keywords |-> NULL,
             summary |-> NULL ],
    k4 |-> [ id |-> "k4", meeting_id |-> "M1", content_type |-> "answer",
             content |-> "Action item: review the budget",
             source |-> "user", created_at |-> 4,
             embedding |-> NULL,
             keywords |-> NULL,
             summary |-> NULL ],
    k5 |-> [ id |-> "k5", meeting_id |-> "M1", content_type |-> "question",
             content |-> "Is the budget final",
             source |-> "document", created_at |-> 5,
             embedding |-> Some(<<-1, 0>>),
             keywords |-> Some(<<"budget">>),
             summary |-> Some("Is the budget final") ],
    k6 |-> [ id |-> "k6", meeting_id |-> "M1", content_type |-> "fact",
             content |-> "Budget review moved to Monday",
             source |-> "user", created_at |-> 6,
             embedding |-> Some(<<4, 3>>),
             keywords |-> Some(<<"budget", "review">>),
             summary |-> Some("Budget review moved to Monday") ] ]

\* The texts a caller may pass as query, topic or reference text.
Queries == { "budget", "unicorns", "lunch menu", "" }

\* Every text that reaches the store as a search text.
SearchTexts ==
  Queries \union { "decision about " \o q : q \in Queries \union { "undefined" } }
          \union { "undefined", "action item task todo assignment" }
          \union { "action item task " \o q : q \in Queries \ { "" } }

Contents == { Pool[i].content : i \in ItemIds }

WordsOf == [ s \in SearchTexts \union Contents |-> Words(s) ]

\* pg_trgm: the trigrams of a text, each word padded with two blanks in
\* front and one behind.
TrigramsOfWord(w) ==
  LET padded == "  " \o w \o " "
  IN  { SubSeq(padded, i, i + 2) : i \in 1..(Len(padded) - 2) }

Trigrams(s) == UNION { TrigramsOfWord(w) : w \in Words(s) }

word_similarity_threshold == 60

\* pg_trgm's  a <% b : the share of a's trigrams found in b reaches the
\* word similarity threshold.
WordSimilar(a, b) ==
  LET ta == Trigrams(a)
  IN  /\ ta # {}
      /\ 100 * Cardinality(ta \intersect Trigrams(b)) >= word_similarity_threshold * Cardinality(ta)

\* The provider answers of a service without API key.
NoProvider ==
  [ hasKey |-> FALSE, embedding |-> NULL, keywordsCompletion |-> NULL,
    summaryCompletion |-> NULL ]

\* A row after processKnowledgeItem's update with the provider answers e.
Enriched(row, e) ==
  LET new == EnrichmentOf(row.content, e)
  IN  [ row EXCEPT !.embedding = new.embedding, !.keywords = new.keywords,
                   !.summary = new.summary ]

\* Every keyword a stored row can carry.
Keywords ==
  UNION { { kw[i] : i \in 1..Len(kw) } :
            kw \in UNION { Pool[i].keywords \union Enriched(Pool[i], NoProvider).keywords :
                             i \in ItemIds } }

TrgmTable == [ q \in SearchTexts \union Contents, k \in Keywords |-> WordSimilar(q, k) ]

\* query_text <% ANY(keywords), for a keywords array that is not NULL.
MatchesAnyKeyword(query_text, kws) ==
  \E i \in 1..Len(kws) : TrgmTable[query_text, kws[i]]

\* A WHERE clause without the distance test: every in-scope row that has an
\* embedding qualifies.
Qualifies_IgnoresThreshold(row, query_embedding, query_text, target_meeting_id, match_threshold) ==
  /\ IsNull(target_meeting_id) \/ row.meeting_id = ValueOf(target_meeting_id)
  /\ ~IsNull(row.embedding)

\* The WHERE clause of hybrid_search.
Qualifies(row, query_embedding, query_text, target_meeting_id, match_threshold) ==
  /\ IsNull(target_meeting_id) \/ row.meeting_id = ValueOf(target_meeting_id)
  /\ ~IsNull(row.embedding)
  /\ \/ CosineDistance(ValueOf(row.embedding), query_embedding) < 100 - match_threshold
     \/ (~IsNull(row.keywords) /\ MatchesAnyKeyword(query_text, ValueOf(row.keywords)))

\* The SELECT list of hybrid_search.
HybridRow(row, query_embedding, query_text) ==
  [ id |-> row.id, meeting_id |-> row.meeting_id, content |-> row.content,
    content_type |-> row.content_type, source |-> row.source,
    created_at |-> row.created_at,
    similarity |-> 100 - CosineDistance(ValueOf(row.embedding), query_embedding),
    keyword_match |-> IF IsNull(row.keywords) THEN NULL
                      ELSE Some(MatchesAnyKeyword(query_text, ValueOf(row.keywords))) ]

\* An ORDER BY without the keyword_match key.
HybridRank_IgnoresKeywordMatch(r) == (r.similarity + 100) * 1000 + r.created_at

\* ORDER BY similarity DESC, keyword_match DESC NULLS LAST, created_at DESC
HybridRank(r) ==
  (r.similarity + 100) * 1000
  + (IF r.keyword_match = Some(TRUE) THEN 200
     ELSE IF r.keyword_match = Some(FALSE) THEN 100 ELSE 0)
  + r.created_at

\* SQL function hybrid_search.
hybrid_search(kb, query_embedding, query_text, target_meeting_id, match_threshold, match_count) ==
  LET rows == { HybridRow(kb[i], query_embedding, query_text) :
                  i \in { j \in DOMAIN kb :
                            Qualifies(kb[j], query_embedding, query_text,
                                      target_meeting_id, match_threshold) } }
  IN  Take(SortedDesc(rows, [ r \in rows |-> HybridRank(r) ]), match_count)

\* Full-text match of the websearch query on column content: every word of
\* the query occurs in the content (stemming and stop words left aside).
FullTextMatch(content, query) ==
  /\ WordsOf[query] # {}
  /\ WordsOf[query] \subseteq WordsOf[content]

\* from('meeting_knowledge').select('*').textSearch(...).order(created_at
\* desc).limit(limit), with .eq('meeting_id', ...) when a meeting is given.
TextSearchRows(kb, query, meetingId, limit) ==
  LET rows == { kb[i] : i \in { j \in DOMAIN kb :
                  /\ FullTextMatch(kb[j].content, query)
                  /\ IsNull(meetingId) \/ kb[j].meeting_id = ValueOf(meetingId) } }
  IN  Take(SortedDesc(rows, [ r \in rows |-> r.created_at ]), limit)

\* SQL function get_knowledge_needing_embeddings.
get_knowledge_needing_embeddings(kb, batch_size) ==
  LET rows == { [ id |-> kb[i].id, meeting_id |-> kb[i].meeting_id,
                  content |-> kb[i].content, content_type |-> kb[i].content_type,
                  source |-> kb[i].source, created_at |-> kb[i].created_at ] :
                i \in { j \in DOMAIN kb : IsNull(kb[j].embedding) } }
  IN  Take(SortedDesc(rows, [ r \in rows |-> r.created_at ]), batch_size)

----------------------------------------------------------------------------
(* Outcomes of the external collaborators *)

\* A store request resolves with data, resolves with an error value, or
\* raises (createClient or the request itself throws).
Outcomes == { "ok", "error", "throw" }

Return(v, log) == [ kind |-> "return", value |-> v, log |-> log ]
Throw(msg, log) == [ kind |-> "throw", value |-> msg, log |-> log ]

\* `${value}` for a possibly undefined string.
JsString(v) == IF IsNull(v) THEN "undefined" ELSE ValueOf(v)

----------------------------------------------------------------------------
(* services/ragService.ts *)

\* textSearch: never throws; an error value or an exception gives [].
textSearch(kb, query, meetingId, limit, e) ==
  IF e.text = "throw" THEN Return(<< >>, << "textSearch" >>)
  ELSE IF e.text = "error" THEN Return(<< >>, << "textSearch" >>)
  ELSE Return(TextSearchRows(kb, JsString(query), meetingId, limit), << "textSearch" >>)

\* The continuation `return this.textSearch(...)` after `before` was issued.
FallBackToText(kb, query, meetingId, limit, e, before) ==
  LET t == textSearch(kb, query, meetingId, limit, e)
  IN  [ t EXCEPT !.log = before \o t.log ]

\* semanticSearch raising when the provider gave no embedding.
semanticSearch_NoEmbeddingThrows(kb, query, meetingId, limit, threshold, e) ==
  LET queryEmbedding == generateEmbedding(query, e)
  IN  IF Len(queryEmbedding) = 0
        THEN Throw("Embedding provider unavailable", << >>)
      ELSE IF e.probe = "throw"
        THEN FallBackToText(kb, query, meetingId, limit, e, << "hybrid_search" >>)
      ELSE IF e.hybrid \in { "throw", "error" }
        THEN FallBackToText(kb, query, meetingId, limit, e,
                            << "hybrid_search", "hybrid_search" >>)
      ELSE Return(hybrid_search(kb, queryEmbedding, JsString(query), meetingId,
                                threshold, limit),
                  << "hybrid_search", "hybrid_search" >>)

\* semanticSearch without its empty-embedding test: the RPCs are issued with
\* the empty vector and match nothing.
semanticSearch_NoEmptyCheck(kb, query, meetingId, limit, threshold, e) ==
  LET queryEmbedding == generateEmbedding(query, e)
  IN  IF Len(queryEmbedding) = 0
        THEN Return(<< >>, << "hybrid_search", "hybrid_search" >>)
      ELSE IF e.probe = "throw"
        THEN FallBackToText(kb, query, meetingId, limit, e, << "hybrid_search" >>)
      ELSE IF e.hybrid \in { "throw", "error" }
        THEN FallBackToText(kb, query, meetingId, limit, e,
                            << "hybrid_search", "hybrid_search" >>)
      ELSE Return(hybrid_search(kb, queryEmbedding, JsString(query), meetingId,
                                threshold, limit),
                  << "hybrid_search", "hybrid_search" >>)

\* semanticSearch giving up on a failed RPC instead of searching the text.
semanticSearch_NoFallback(kb, query, meetingId, limit, threshold, e) ==
  LET queryEmbedding == generateEmbedding(query, e)
  IN  IF Len(queryEmbedding) = 0
        THEN FallBackToText(kb, query, meetingId, limit, e, << >>)
      ELSE IF e.probe = "throw"
        THEN Return(<< >>, << "hybrid_search" >>)
      ELSE IF e.hybrid \in { "throw", "error" }
        THEN Return(<< >>, << "hybrid_search", "hybrid_search" >>)
      ELSE Return(hybrid_search(kb, queryEmbedding, JsString(query), meetingId,
                                threshold, limit),
                  << "hybrid_search", "hybrid_search" >>)

\* semanticSearch: the probe RPC without meeting filter, then the RPC with it.
semanticSearch(kb, query, meetingId, limit, threshold, e) ==
  LET queryEmbedding == generateEmbedding(query, e)
  IN  IF Len(queryEmbedding) = 0
        THEN FallBackToText(kb, query, meetingId, limit, e, << >>)
      ELSE IF e.probe = "throw"
        THEN FallBackToText(kb, query, meetingId, limit, e, << "hybrid_search" >>)
      ELSE IF e.hybrid = "throw"
        THEN FallBackToText(kb, query, meetingId, limit, e,
                            << "hybrid_search", "hybrid_search" >>)
      ELSE IF e.hybrid = "error"
        THEN FallBackToText(kb, query, meetingId, limit, e,
                            << "hybrid_search", "hybrid_search" >>)
      ELSE Return(hybrid_search(kb, queryEmbedding, JsString(query), meetingId,
                                threshold, limit),
                  << "hybrid_search", "hybrid_search" >>)

\* estimateTokens: Math.ceil(text.length / 4)
estimateTokens(text) == (Len(text) + 3) \div 4

\* A loop that passes over an item that does not fit and goes on with the
\* items after it.
RECURSIVE AppendItems_SkipsOversized(_, _, _, _)
AppendItems_SkipsOversized(items, context, tokenCount, maxTokens) ==
  IF items = << >> THEN context
  ELSE LET item == Head(items)
           itemText == "[" \o ToUpperCase(item.content_type) \o "] " \o item.content \o "\n"
           itemTokens == estimateTokens(itemText)
       IN  IF tokenCount + itemTokens > maxTokens
             THEN AppendItems_SkipsOversized(Tail(items), context, tokenCount, maxTokens)
             ELSE AppendItems_SkipsOversized(Tail(items), context \o itemText,
                                             tokenCount + itemTokens, maxTokens)

\* The for loop of buildAIContext over the items still to visit.
RECURSIVE AppendItems(_, _, _, _)
AppendItems(items, context, tokenCount, maxTokens) ==
  IF items = << >> THEN context
  ELSE LET item == Head(items)
           itemText == "[" \o ToUpperCase(item.content_type) \o "] " \o item.content \o "\n"
           itemTokens == estimateTokens(itemText)
       IN  IF tokenCount + itemTokens > maxTokens
             THEN context
             ELSE AppendItems(Tail(items), context \o itemText,
                              tokenCount + itemTokens, maxTokens)

default_threshold == 70
default_limit == 10
context_limit == 15

\* buildAIContext
buildAIContext(kb, query, meetingId, maxTokens, e) ==
  LET found == semanticSearch(kb, query, meetingId, context_limit, default_threshold, e)
      relevantKnowledge == found.value
  IN  IF found.kind = "throw"
        THEN Return("Meeting Context: Error retrieving context for \"" \o JsString(query) \o "\"",
                    found.log)
      ELSE IF Len(relevantKnowledge) = 0
        THEN Return("Meeting Context: No relevant knowledge found for \"" \o JsString(query) \o "\"",
                    found.log)
      ELSE LET header == "Meeting Context for: \"" \o JsString(query) \o "\"\n\n"
           IN  Return(AppendItems(relevantKnowledge, header, estimateTokens(header), maxTokens),
                      found.log)

similar_threshold == 60

\* findSimilarKnowledge without the test of the source item's embedding: the
\* RPC is issued with the null vector and matches nothing.
findSimilarKnowledge_NoEmbeddingCheck(kb, knowledgeId, limit, e) ==
  IF e.source = "throw" THEN Return(<< >>, << "select" >>)
  ELSE IF e.source = "error" \/ knowledgeId \notin DOMAIN kb
    THEN Return(<< >>, << "select" >>)
  ELSE IF IsNull(kb[knowledgeId].embedding)
    THEN Return(<< >>, << "select", "hybrid_search" >>)
  ELSE IF e.hybrid = "throw" \/ e.hybrid = "error"
    THEN Return(<< >>, << "select", "hybrid_search" >>)
  ELSE LET sourceItem == kb[knowledgeId]
           data == hybrid_search(kb, ValueOf(sourceItem.embedding), sourceItem.content,
                                 NULL, similar_threshold, limit + 1)
       IN  Return(SelectSeq(data, LAMBDA item : item.id # knowledgeId),
                  << "select", "hybrid_search" >>)

\* findSimilarKnowledge
findSimilarKnowledge(kb, knowledgeId, limit, e) ==
  IF e.source = "throw" THEN Return(<< >>, << "select" >>)
  ELSE IF e.source = "error" \/ knowledgeId \notin DOMAIN kb
    THEN Return(<< >>, << "select" >>)
  ELSE IF IsNull(kb[knowledgeId].embedding)
    THEN Return(<< >>, << "select" >>)
  ELSE IF e.hybrid = "throw" \/ e.hybrid = "error"
    THEN Return(<< >>, << "select", "hybrid_search" >>)
  ELSE LET sourceItem == kb[knowledgeId]
           data == hybrid_search(kb, ValueOf(sourceItem.embedding), sourceItem.content,
                                 NULL, similar_threshold, limit + 1)
       IN  Return(SelectSeq(data, LAMBDA item : item.id # knowledgeId),
                  << "select", "hybrid_search" >>)

----------------------------------------------------------------------------
(* services/aiToolsService.ts *)

EmptyObject == [ k \in {} |-> {} ]

\* params.<key> as a nullable value.
Param(params, key) == IF key \in DOMAIN params THEN Some(params[key]) ELSE NULL

\* The property `key: value` of an object literal; a property whose value is
\* undefined does not show in the JSON the caller receives.
Prop(key, value) == IF IsNull(value) THEN EmptyObject ELSE [ k \in { key } |-> ValueOf(value) ]

\* r.<key> of a search result (text search rows carry no similarity).
Field(r, key) == IF key \in DOMAIN r THEN Some(r[key]) ELSE NULL

search_threshold == 60
search_default_limit == 5

\* searchMeetingKnowledge without the content type filter.
searchMeetingKnowledge_NoTypeFilter(kb, params, e) ==
  LET query == Param(params, "query")
      limit == IF "limit" \in DOMAIN params THEN params.limit ELSE search_default_limit
      found == semanticSearch(kb, query, NULL, limit, search_threshold, e)
      results == found.value
      Shape(r) == [ content |-> r.content, type |-> r.content_type, source |-> r.source,
                    created_at |-> r.created_at ] @@ Prop("similarity", Field(r, "similarity"))
  IN  IF found.kind = "throw" THEN found
      ELSE Return([ success |-> TRUE,
                    data |-> [ results |-> [ i \in 1..Len(Take(results, limit)) |->
                                            Shape(Take(results, limit)[i]) ],
                               total_found |-> Len(results) ]
                             @@ Prop("query", query) ],
                  found.log)

\* searchMeetingKnowledge
searchMeetingKnowledge(kb, params, e) ==
  LET query == Param(params, "query")
      content_type == Param(params, "content_type")
      limit == IF "limit" \in DOMAIN params THEN params.limit ELSE search_default_limit
      found == semanticSearch(kb, query, NULL, limit, search_threshold, e)
      results == found.value
      filteredResults ==
        IF ~IsNull(content_type) /\ ValueOf(content_type) # ""
          THEN SelectSeq(results, LAMBDA r : r.content_type = ValueOf(content_type))
          ELSE results
      Shape(r) == [ content |-> r.content, type |-> r.content_type, source |-> r.source,
                    created_at |-> r.created_at ] @@ Prop("similarity", Field(r, "similarity"))
  IN  IF found.kind = "throw" THEN found
      ELSE Return([ success |-> TRUE,
                    data |-> [ results |-> [ i \in 1..Len(Take(filteredResults, limit)) |->
                                            Shape(Take(filteredResults, limit)[i]) ],
                               total_found |-> Len(filteredResults) ]
                             @@ Prop("query", query) ],
                  found.log)

\* A decision filter that looks at the content type only.
IsDecision_SummaryOnly(r) == r.content_type = "summary"

IsDecision(r) ==
  \/ r.content_type = "summary"
  \/ Includes(ToLowerCase(r.content), "decision")
  \/ Includes(ToLowerCase(r.content), "decided")
  \/ Includes(ToLowerCase(r.content), "agreed")

recall_threshold == 10
recall_limit == 10

\* recallDecisions: the two debug requests come before the search and are
\* not guarded, so what they raise leaves the executor.
recallDecisions(kb, meetingId, params, e) ==
  LET topic == Param(params, "topic")
      decisionQuery == "decision about " \o JsString(topic)
      queryEmbedding == generateEmbedding(Some(decisionQuery), e)
      debugLog == IF Len(queryEmbedding) > 0
                    THEN << "select", "hybrid_search", "hybrid_search" >>
                    ELSE << "select" >>
      found == semanticSearch(kb, Some(decisionQuery), NULL, recall_limit, recall_threshold, e)
      decisions == SelectSeq(found.value, IsDecision)
      Shape(d) == [ content |-> d.content, created_at |-> d.created_at ]
                  @@ Prop("similarity", Field(d, "similarity"))
  IN  IF e.debugCheck = "throw"
        THEN Throw("debugCheckKnowledge failed", << "select" >>)
      ELSE IF Len(queryEmbedding) > 0 /\ e.debugHybrid = "throw"
        THEN Throw("debugTestHybridSearch failed", << "select", "hybrid_search" >>)
      ELSE IF found.kind = "throw" THEN found
      ELSE Return([ success |-> TRUE,
                    data |-> [ decisions |-> [ i \in 1..Len(decisions) |->
                                                 Shape(decisions[i]) ] ]
                             @@ Prop("topic", topic) ],
                  debugLog \o found.log)

IsActionItem(r) ==
  LET content == ToLowerCase(r.content)
  IN  \/ Includes(content, "action")
      \/ Includes(content, "task")
      \/ Includes(content, "todo")
      \/ Includes(content, "assignment")
      \/ Includes(content, "responsible")
      \/ Includes(content, "deadline")

action_threshold == 40
action_limit == 15

\* getActionItems
getActionItems(kb, params, e) ==
  LET assignee == Param(params, "assignee")
      status == IF "status" \in DOMAIN params THEN params.status ELSE "all"
      actionQuery == IF ~IsNull(assignee) /\ ValueOf(assignee) # ""
                       THEN "action item task " \o ValueOf(assignee)
                       ELSE "action item task todo assignment"
      found == semanticSearch(kb, Some(actionQuery), NULL, action_limit, action_threshold, e)
      actionItems == SelectSeq(found.value, IsActionItem)
      Shape(item) == [ content |-> item.content, created_at |-> item.created_at ]
                     @@ Prop("similarity", Field(item, "similarity"))
  IN  IF found.kind = "throw" THEN found
      ELSE Return([ success |-> TRUE,
                    data |-> [ assignee |-> IF ~IsNull(assignee) /\ ValueOf(assignee) # ""
                                              THEN assignee ELSE NULL,
                               status |-> status,
                               action_items |-> [ i \in 1..Len(actionItems) |-> Shape(actionItems[i]) ] ] ],
                  found.log)

summary_threshold == 30
summary_limit == 20
key_points_limit == 5

CountType(results, type) == Len(SelectSeq(results, LAMBDA r : r.content_type = type))

\* summarizeTopic reporting an empty search as a failure.
summarizeTopic_EmptyIsFailure(kb, params, e) ==
  LET topic == Param(params, "topic")
      found == semanticSearch(kb, topic, NULL, summary_limit, summary_threshold, e)
      results == found.value
      Shape(r) == [ content |-> r.content, type |-> r.content_type ]
                  @@ Prop("similarity", Field(r, "similarity"))
  IN  IF found.kind = "throw" THEN found
      ELSE IF Len(results) = 0
        THEN Return([ success |-> FALSE,
                      error |-> "No discussions found about \"" \o JsString(topic) \o "\"" ],
                    found.log)
      ELSE Return([ success |-> TRUE,
                    data |-> [ summary |-> "Found " \o NatToString(Len(results))
                                             \o " items related to \"" \o JsString(topic) \o "\"",
                               key_points |-> [ i \in 1..Len(Take(results, key_points_limit)) |->
                                                  results[i].content ],
                               related_items |-> [ i \in 1..Len(results) |-> Shape(results[i]) ] ]
                             @@ Prop("topic", topic) ],
                  found.log)

\* summarizeTopic
summarizeTopic(kb, params, e) ==
  LET topic == Param(params, "topic")
      found == semanticSearch(kb, topic, NULL, summary_limit, summary_threshold, e)
      results == found.value
      Shape(r) == [ content |-> r.content, type |-> r.content_type ]
                  @@ Prop("similarity", Field(r, "similarity"))
  IN  IF found.kind = "throw" THEN found
      ELSE IF Len(results) = 0
        THEN Return([ success |-> TRUE,
                      data |-> [ summary |-> "No discussions found about \"" \o JsString(topic)
                                             \o "\" in this meeting.",
                                 related_items |-> << >> ] @@ Prop("topic", topic) ],
                    found.log)
      ELSE Return([ success |-> TRUE,
                    data |-> [ summary |-> "Found " \o NatToString(Len(results))
                                             \o " items related to \"" \o JsString(topic) \o "\"",
                               content_breakdown |->
                                 [ facts |-> CountType(results, "fact"),
                                   context |-> CountType(results, "context"),
                                   summaries |-> CountType(results, "summary"),
                                   questions |-> CountType(results, "question"),
                                   answers |-> CountType(results, "answer") ],
                               key_points |-> [ i \in 1..Len(Take(results, key_points_limit)) |->
                                                  results[i].content ],
                               related_items |-> [ i \in 1..Len(results) |-> Shape(results[i]) ] ]
                             @@ Prop("topic", topic) ],
                  found.log)

similar_discussions_threshold == 60
similar_discussions_limit == 10

\* findSimilarDiscussions
findSimilarDiscussions(kb, meetingId, params, e) ==
  LET reference_text == Param(params, "reference_text")
      scope == IF "scope" \in DOMAIN params THEN params.scope ELSE "current_meeting"
      searchMeetingId == IF scope = "current_meeting" THEN Some(meetingId) ELSE NULL
      found == semanticSearch(kb, reference_text, searchMeetingId, similar_discussions_limit,
                              similar_discussions_threshold, e)
      Shape(r) == [ content |-> r.content, type |-> r.content_type,
                    meeting_id |-> r.meeting_id, created_at |-> r.created_at ]
                  @@ Prop("similarity", Field(r, "similarity"))
  IN  IF found.kind = "throw" THEN found
      ELSE Return([ success |-> TRUE,
                    data |-> [ scope |-> scope,
                               similar_discussions |->
                                 [ i \in 1..Len(found.value) |-> Shape(found.value[i]) ] ]
                             @@ Prop("reference_text", reference_text) ],
                  found.log)

\* The names advertised by getAvailableTools.
AvailableTools == { "search_meeting_knowledge", "recall_decisions", "summarize_topic" }

\* The parameters each tool declares as required: getAvailableTools, and for
\* the two names it does not list, the executors' own parameter types.
RequiredParameters(name) ==
  CASE name = "search_meeting_knowledge" -> { "query" }
    [] name = "recall_decisions" -> { "topic" }
    [] name = "summarize_topic" -> { "topic" }
    [] name = "find_similar_discussions" -> { "reference_text" }
    [] OTHER -> {}

\* The switch without the case of summarize_topic.
Dispatch_NoSummarizeCase(kb, meetingId, toolCall, e) ==
  CASE toolCall.name = "search_meeting_knowledge" ->
         searchMeetingKnowledge(kb, toolCall.parameters, e)
    [] toolCall.name = "recall_decisions" ->
         recallDecisions(kb, meetingId, toolCall.parameters, e)
    [] OTHER ->
         Return([ success |-> FALSE, error |-> "Unknown tool: " \o toolCall.name ], << >>)

\* The switch with a default branch that does not say which name it was given.
Dispatch_AnonymousDefault(kb, meetingId, toolCall, e) ==
  CASE toolCall.name = "search_meeting_knowledge" ->
         searchMeetingKnowledge(kb, toolCall.parameters, e)
    [] toolCall.name = "recall_decisions" ->
         recallDecisions(kb, meetingId, toolCall.parameters, e)
    [] toolCall.name = "summarize_topic" ->
         summarizeTopic(kb, toolCall.parameters, e)
    [] OTHER ->
         Return([ success |-> FALSE, error |-> "Unknown tool" ], << >>)

\* The switch of executeTool.
Dispatch(kb, meetingId, toolCall, e) ==
  CASE toolCall.name = "search_meeting_knowledge" ->
         searchMeetingKnowledge(kb, toolCall.parameters, e)
    [] toolCall.name = "recall_decisions" ->
         recallDecisions(kb, meetingId, toolCall.parameters, e)
    [] toolCall.name = "summarize_topic" ->
         summarizeTopic(kb, toolCall.parameters, e)
    [] OTHER ->
         Return([ success |-> FALSE, error |-> "Unknown tool: " \o toolCall.name ], << >>)

\* The catch of executeTool: what the switch raised becomes a failure result.
CatchToolError(r) ==
  IF r.kind = "throw"
    THEN Return([ success |-> FALSE, error |-> r.value ], r.log)
    ELSE r

\* executeTool without its try/catch: what the switch raises reaches the caller.
executeTool_NoCatch(kb, meetingId, toolCall, e) ==
  Dispatch(kb, meetingId, toolCall, e)

\* executeTool: the switch inside try, then the catch.
executeTool(kb, meetingId, toolCall, e) ==
  CatchToolError(Dispatch(kb, meetingId, toolCall, e))

----------------------------------------------------------------------------
(* Inputs and outcomes of the retrieval and tool calls *)

\* The vectors the provider answers a query with.
QueryVectors == { <<3, 4>>, <<1, 0>>, <<0, -1>> }

ProviderOutcomes ==
  { [ hasKey |-> FALSE, embedding |-> NULL ] }
  \union { [ hasKey |-> TRUE, embedding |-> x ] :
             x \in { NULL } \union { Some(v) : v \in QueryVectors } }

Env(p, probe, hybrid, text, source, debugCheck, debugHybrid) ==
  [ hasKey |-> p.hasKey, embedding |-> p.embedding, probe |-> probe, hybrid |-> hybrid,
    text |-> text, source |-> source, debugCheck |-> debugCheck, debugHybrid |-> debugHybrid ]

\* Outcomes of the requests semanticSearch issues; the others are not issued.
SearchEnvs ==
  { Env(p, probe, hybrid, text, "ok", "ok", "ok") :
      p \in ProviderOutcomes, probe \in Outcomes, hybrid \in Outcomes, text \in Outcomes }

RecallEnvs ==
  { [ e EXCEPT !.debugCheck = dc, !.debugHybrid = dh ] :
      e \in SearchEnvs, dc \in Outcomes, dh \in Outcomes }

SimilarEnvs ==
  { Env([ hasKey |-> TRUE, embedding |-> NULL ], "ok", hybrid, "ok", source, "ok", "ok") :
      hybrid \in Outcomes, source \in Outcomes }

Scopes == { NULL } \union { Some(m) : m \in Meetings }
Limits == { 1, 10 }
Thresholds == { 10, 70 }
Budgets == { 5, 18, 30, 2000 }

ToolNames == { "search_meeting_knowledge", "recall_decisions", "get_action_items",
              "summarize_topic", "find_similar_discussions" }

\* The parameter objects a caller sends with each tool name.
ParametersOf(name) ==
  { EmptyObject } \union
  CASE name = "search_meeting_knowledge" ->
         { [ query |-> q ] : q \in Queries }
         \union { [ query |-> "budget", limit |-> 1 ],
                  [ query |-> "budget", content_type |-> "summary" ],
                  [ query |-> "budget", content_type |-> "fact", limit |-> 1 ] }
    [] name \in { "recall_decisions", "summarize_topic" } ->
         { [ topic |-> q ] : q \in Queries }
    [] name = "get_action_items" ->
         { [ status |-> "all" ], [ assignee |-> "budget" ] }
    [] name = "find_similar_discussions" ->
         { [ reference_text |-> "budget", scope |-> sc ] :
             sc \in { "current_meeting", "all_meetings" } }
    [] OTHER -> { [ query |-> "budget" ] }

ToolCalls ==
  UNION { { [ name |-> n, parameters |-> p ] : p \in ParametersOf(n) } :
            n \in ToolNames \union { "unknown_tool" } }

\* The provider answering with an embedding only: keywords and summary are
\* made locally.
EmbeddingOnly ==
  [ hasKey |-> TRUE, embedding |-> Some(<<3, 4>>), keywordsCompletion |-> NULL,
    summaryCompletion |-> NULL ]

\* Stores of rows as inserted and enriched, one in which k4 is as an
\* enrichment without provider left it (keywords and summary, no embedding),
\* one whose rows were all given the same embedding by the provider, and one
\* of six rows that all have an embedding.
KnowledgeBases ==
  { [ i \in S |-> Pool[i] ] :
      S \in { {}, { "k1", "k2" }, { "k3", "k4", "k5" }, { "k1", "k2", "k3", "k4", "k5" } } }
  \union { [ i \in { "k1", "k2", "k4" } |->
               IF i = "k4" THEN Enriched(Pool[i], NoProvider) ELSE Pool[i] ] }
  \union { [ i \in { "k1", "k2", "k3" } |-> [ Pool[i] EXCEPT !.embedding = Some(<<3, 4>>) ] ] }
  \union { [ i \in ItemIds |->
               IF i = "k4" THEN Enriched(Pool[i], EmbeddingOnly) ELSE Pool[i] ] }

NoCall == [ fn |-> "none" ]
NoEnv == Env([ hasKey |-> TRUE, embedding |-> NULL ], "ok", "ok", "ok", "ok", "ok", "ok")

----------------------------------------------------------------------------
(* The retrieval engine and the tool layer as called by the routes.  The    *)
(* calls keep no state of their own and only read the store, so they are   *)
(* taken one at a time: a call is made when none is outstanding, and its   *)
(* result stays in ret until the caller has taken it.                      *)

SemanticSearchCall ==
  /\ call = NoCall
  /\ \E q \in Queries, m \in Scopes, l \in Limits, t \in Thresholds, e \in SearchEnvs :
    /\ call' = [ fn |-> "semanticSearch", query |-> q, meetingId |-> m, limit |-> l,
                 threshold |-> t ]
    /\ env' = e
    /\ ret' = semanticSearch(knowledge, Some(q), m, l, t, e)
    /\ UNCHANGED << knowledge, schedulerVars, inviteVars, signalingVars >>

BuildAIContextCall ==
  /\ call = NoCall
  /\ \E q \in Queries, m \in Scopes, n \in Budgets, e \in SearchEnvs :
    /\ call' = [ fn |-> "buildAIContext", query |-> q, meetingId |-> m, maxTokens |-> n ]
    /\ env' = e
    /\ ret' = buildAIContext(knowledge, Some(q), m, n, e)
    /\ UNCHANGED << knowledge, schedulerVars, inviteVars, signalingVars >>

FindSimilarKnowledgeCall ==
  /\ call = NoCall
  /\ \E id \in ItemIds, l \in Limits, e \in SimilarEnvs :
    /\ call' = [ fn |-> "findSimilarKnowledge", knowledgeId |-> id, limit |-> l ]
    /\ env' = e
    /\ ret' = findSimilarKnowledge(knowledge, id, l, e)
    /\ UNCHANGED << knowledge, schedulerVars, inviteVars, signalingVars >>

ExecuteToolCall ==
  /\ call = NoCall
  /\ \E tc \in ToolCalls, m \in Meetings :
    \E e \in IF tc.name = "recall_decisions" THEN RecallEnvs ELSE SearchEnvs :
      /\ call' = [ fn |-> "executeTool", toolCall |-> tc, meetingId |-> m ]
      /\ env' = e
      /\ ret' = executeTool(knowledge, m, tc, e)
      /\ UNCHANGED << knowledge, schedulerVars, inviteVars, signalingVars >>

\* The caller takes the result; the engine is ready for the next call.
TakeResult ==
  /\ call # NoCall
  /\ call' = NoCall
  /\ env' = NoEnv
  /\ ret' = Return(<< >>, << >>)
  /\ UNCHANGED << knowledge, schedulerVars, inviteVars, signalingVars >>

MaxRuns == 2
Runs == 1..MaxRuns

\* The invite-token route has served no request and the signaling server no
\* socket.
PlatformIdle ==
  /\ invite_tokens = EmptyObject
  /\ consume = EmptyObject
  /\ now = 0
  /\ rooms = EmptyObject
  /\ participants = EmptyObject
  /\ sockets = EmptyObject

SchedulerIdle ==
  /\ isProcessing = [ r \in Runs |-> FALSE ]
  /\ pc = [ r \in Runs |-> "idle" ]
  /\ batch = [ r \in Runs |-> << >> ]
  /\ idx = [ r \in Runs |-> 0 ]
  /\ enriched = [ r \in Runs |-> NULL ]
  /\ attempted = [ r \in Runs |-> << >> ]
  /\ failed = [ r \in Runs |-> << >> ]
  /\ fetches = 0

Init ==
  /\ knowledge \in KnowledgeBases
  /\ call = NoCall
  /\ env = NoEnv
  /\ ret = Return(<< >>, << >>)
  /\ SchedulerIdle
  /\ PlatformIdle

Next ==
  \/ SemanticSearchCall
  \/ BuildAIContextCall
  \/ FindSimilarKnowledgeCall
  \/ ExecuteToolCall
  \/ TakeResult

Spec == Init /\ [][Next]_vars

----------------------------------------------------------------------------
(* The background enrichment: startBackgroundProcessing of index.ts and    *)
(* processPendingKnowledge / processKnowledgeItem of embeddingService.ts.  *)
(* Run r is the r-th firing of the timers (the startup timeout, then the   *)
(* interval).  A run is idle before its timer fires, then fetching,        *)
(* enriching or updating an item, and done at the end.                     *)

MaxPending == 2
ItemOrder == << "k1", "k2", "k3", "k4", "k5" >>

\* A row as the ingestion route inserts it.
Unenriched(row) == [ row EXCEPT !.embedding = NULL, !.keywords = NULL, !.summary = NULL ]

PendingBases ==
  { [ i \in { ItemOrder[j] : j \in 1..n } |-> Unenriched(Pool[i]) ] : n \in 0..MaxPending }

\* What the provider answers to the three requests of one item.
EnrichOutcomes ==
  { [ hasKey |-> FALSE, embedding |-> NULL, keywordsCompletion |-> NULL,
      summaryCompletion |-> NULL ],
    [ hasKey |-> TRUE, embedding |-> NULL, keywordsCompletion |-> NULL,
      summaryCompletion |-> NULL ],
    [ hasKey |-> TRUE, embedding |-> NULL,
      keywordsCompletion |-> Some("budget, cap, cost, plan, team, goal, risk, Q3 review"),
      summaryCompletion |-> Some(" Budget is capped. ") ],
    [ hasKey |-> TRUE, embedding |-> Some(<<3, 4>>),
      keywordsCompletion |-> Some(" Budget, Cap ,,money\n"),
      summaryCompletion |-> Some(" Budget is capped. ") ] }

batch_size == 5

\* processKnowledgeItem's three results for every content and provider answer.
Enrichments == [ c \in Contents, e \in EnrichOutcomes |-> EnrichmentOf(c, e) ]

\* The service instance a timer firing works on: processKnowledge builds a
\* new EmbeddingService each time, whose isProcessing starts false.
InstanceOf(r) == r

Active(r) == pc[r] \in { "fetching", "enriching", "updating" }

\* A run that ends without its finally block: the guard stays set.
Finish_KeepsGuard(r) ==
  /\ pc' = [ pc EXCEPT ![r] = "done" ]
  /\ enriched' = [ enriched EXCEPT ![r] = NULL ]
  /\ UNCHANGED << isProcessing, idx, attempted >>

\* The finally block: the run is over.
Finish(r) ==
  /\ isProcessing' = [ isProcessing EXCEPT ![InstanceOf(r)] = FALSE ]
  /\ pc' = [ pc EXCEPT ![r] = "done" ]
  /\ enriched' = [ enriched EXCEPT ![r] = NULL ]
  /\ UNCHANGED << idx, attempted >>

\* The for loop moves on: the next item is handed to processKnowledgeItem,
\* or the loop is over.
NextItem(r) ==
  IF idx[r] < Len(batch[r])
    THEN /\ idx' = [ idx EXCEPT ![r] = @ + 1 ]
         /\ attempted' = [ attempted EXCEPT ![r] = Append(@, batch[r][idx[r] + 1].id) ]
         /\ pc' = [ pc EXCEPT ![r] = "enriching" ]
         /\ enriched' = [ enriched EXCEPT ![r] = NULL ]
         /\ UNCHANGED isProcessing
    ELSE Finish(r)

\* A loop without its inner catch: the failure leaves the loop and the run ends.
ItemFailed_AbortsBatch(r) == Finish(r)

\* The catch inside the loop: the failure is logged, the loop continues.
ItemFailed(r) == NextItem(r)

\* processPendingKnowledge up to its first await, on service instance i.
ProcessPendingKnowledge(i, r) ==
  IF isProcessing[i]
    THEN /\ pc' = [ pc EXCEPT ![r] = "done" ]
         /\ UNCHANGED << isProcessing, fetches >>
    ELSE /\ isProcessing' = [ isProcessing EXCEPT ![i] = TRUE ]
         /\ fetches' = fetches + 1
         /\ pc' = [ pc EXCEPT ![r] = "fetching" ]

\* A timer fires: processKnowledge.  Timers fire in order.
ProcessKnowledge(r) ==
  /\ pc[r] = "idle"
  /\ \A q \in Runs : q < r => pc[q] # "idle"
  /\ ProcessPendingKnowledge(InstanceOf(r), r)
  /\ UNCHANGED << knowledge, retrievalVars, inviteVars, signalingVars, batch, idx, enriched, attempted, failed >>

\* The fetch fails: an error value or an exception, the run ends.
FetchFailed(r) ==
  /\ pc[r] = "fetching"
  /\ Finish(r)
  /\ UNCHANGED << knowledge, retrievalVars, inviteVars, signalingVars, batch, failed, fetches >>

\* A fetch whose items are all handed to processKnowledgeItem at once.
FetchReturned_StartsAll(r) ==
  /\ pc[r] = "fetching"
  /\ LET pendingItems == get_knowledge_needing_embeddings(knowledge, batch_size)
     IN  /\ batch' = [ batch EXCEPT ![r] = pendingItems ]
         /\ IF Len(pendingItems) = 0
              THEN Finish(r)
              ELSE /\ idx' = [ idx EXCEPT ![r] = 1 ]
                   /\ attempted' = [ attempted EXCEPT ![r] = Ids(pendingItems) ]
                   /\ pc' = [ pc EXCEPT ![r] = "enriching" ]
                   /\ UNCHANGED << isProcessing, enriched >>
  /\ UNCHANGED << knowledge, retrievalVars, inviteVars, signalingVars, failed, fetches >>

\* The fetch answers with the pending items; none ends the run.
FetchReturned(r) ==
  /\ pc[r] = "fetching"
  /\ LET pendingItems == get_knowledge_needing_embeddings(knowledge, batch_size)
     IN  /\ batch' = [ batch EXCEPT ![r] = pendingItems ]
         /\ IF Len(pendingItems) = 0
              THEN Finish(r)
              ELSE /\ idx' = [ idx EXCEPT ![r] = 1 ]
                   /\ attempted' = [ attempted EXCEPT ![r] = << pendingItems[1].id >> ]
                   /\ pc' = [ pc EXCEPT ![r] = "enriching" ]
                   /\ UNCHANGED << isProcessing, enriched >>
  /\ UNCHANGED << knowledge, retrievalVars, inviteVars, signalingVars, failed, fetches >>

\* processKnowledgeItem: Promise.all of the three provider calls resolves.
Enrich(r) ==
  /\ pc[r] = "enriching"
  /\ \E e \in EnrichOutcomes :
       enriched' = [ enriched EXCEPT ![r] = Some(Enrichments[batch[r][idx[r]].content, e]) ]
  /\ pc' = [ pc EXCEPT ![r] = "updating" ]
  /\ UNCHANGED << knowledge, retrievalVars, inviteVars, signalingVars, isProcessing, batch, idx, attempted, failed, fetches >>

\* An update that also rewrites the content with the summary.
UpdateStored_OverwritesContent(r) ==
  /\ pc[r] = "updating"
  /\ LET id == batch[r][idx[r]].id
         new == ValueOf(enriched[r])
     IN  knowledge' = IF id \in DOMAIN knowledge
                        THEN [ knowledge EXCEPT ![id] =
                                 [ @ EXCEPT !.embedding = new.embedding,
                                            !.keywords = new.keywords,
                                            !.summary = new.summary,
                                            !.content = ValueOf(new.summary) ] ]
                        ELSE knowledge
  /\ NextItem(r)
  /\ UNCHANGED << retrievalVars, inviteVars, signalingVars, batch, failed, fetches >>

\* The row update succeeds; after the delay the loop moves on.
UpdateStored(r) ==
  /\ pc[r] = "updating"
  /\ LET id == batch[r][idx[r]].id
         new == ValueOf(enriched[r])
     IN  knowledge' = IF id \in DOMAIN knowledge
                        THEN [ knowledge EXCEPT ![id] =
                                 [ @ EXCEPT !.embedding = new.embedding,
                                            !.keywords = new.keywords,
                                            !.summary = new.summary ] ]
                        ELSE knowledge
  /\ NextItem(r)
  /\ UNCHANGED << retrievalVars, inviteVars, signalingVars, batch, failed, fetches >>

\* The row update gives an error or raises: processKnowledgeItem throws.
UpdateFailed(r) ==
  /\ pc[r] = "updating"
  /\ failed' = [ failed EXCEPT ![r] = Append(@, batch[r][idx[r]].id) ]
  /\ ItemFailed(r)
  /\ UNCHANGED << knowledge, retrievalVars, inviteVars, signalingVars, batch, fetches >>

SchedulerInit ==
  /\ knowledge \in PendingBases
  /\ call = NoCall
  /\ env = NoEnv
  /\ ret = Return(<< >>, << >>)
  /\ SchedulerIdle
  /\ PlatformIdle

SchedulerNext ==
  \E r \in Runs :
    \/ ProcessKnowledge(r)
    \/ FetchFailed(r)
    \/ FetchReturned(r)
    \/ Enrich(r)
    \/ UpdateStored(r)
    \/ UpdateFailed(r)

SchedulerSpec == SchedulerInit /\ [][SchedulerNext]_vars

----------------------------------------------------------------------------
(* Properties of the tool layer and the retrieval engine (Spec)            *)

\* The shape of a ToolResult: success, and optionally data and error.
IsToolResult(v) ==
  /\ DOMAIN v \subseteq { "success", "data", "error" }
  /\ "success" \in DOMAIN v
  /\ v.success \in BOOLEAN

ExecuteToolReturned == call.fn = "executeTool"

\* C1: executeTool never throws.  For every tool name, every parameters map
\* and every outcome of the provider and the store, the call completes by
\* returning a ToolResult.
C1_ExecuteToolNeverThrows ==
  ExecuteToolReturned => ret.kind = "return" /\ IsToolResult(ret.value)

\* recall_decisions whose unguarded store check raised: the exception became
\* a failure result carrying its message.
C1_Witness ==
  /\ ExecuteToolReturned
  /\ call.toolCall.name = "recall_decisions"
  /\ env.debugCheck = "throw"
  /\ ret.kind = "return"
  /\ ret.value.success = FALSE
  /\ "error" \in DOMAIN ret.value

\* C3: the string buildAIContext returns never has an estimated token count
\* above the budget it was given, whichever branch produced it.
C3_ContextWithinBudget ==
  call.fn = "buildAIContext" => estimateTokens(ret.value) <= call.maxTokens

\* The provider gave no vector for the query of the outstanding call.
EmptyQueryEmbedding == ~env.hasKey \/ IsNull(env.embedding)

\* C4: when the provider yields an empty vector, semanticSearch returns
\* exactly what textSearch returns for the same query, scope, limit and store,
\* and the hybrid_search RPC is not called.
C4_EmptyEmbeddingIsTextSearch ==
  (call.fn = "semanticSearch" /\ EmptyQueryEmbedding) =>
    /\ ret.kind = "return"
    /\ ret.value = textSearch(knowledge, Some(call.query), call.meetingId, call.limit, env).value
    /\ \A i \in DOMAIN ret.log : ret.log[i] # "hybrid_search"

\* An empty vector, a working text search, and rows found by it.
C4_Witness ==
  /\ call.fn = "semanticSearch"
  /\ EmptyQueryEmbedding
  /\ env.text = "ok"
  /\ Len(ret.value) > 0
  /\ ret.log = << "textSearch" >>

\* The RPC of the outstanding semanticSearch failed: the scoped request gave
\* an error value or raised, or the request before it raised.
HybridSearchFailed ==
  /\ ~EmptyQueryEmbedding
  /\ env.probe = "throw" \/ env.hybrid \in { "error", "throw" }

\* C5: semanticSearch never throws and degrades in one level.  A failed
\* hybrid_search RPC gives the result of textSearch with the same query,
\* scope and limit; when textSearch fails as well the result is empty.
C5_OneLevelFallback ==
  call.fn = "semanticSearch" =>
    /\ ret.kind = "return"
    /\ HybridSearchFailed =>
         ret.value = IF env.text = "ok"
                       THEN TextSearchRows(knowledge, call.query, call.meetingId, call.limit)
                       ELSE << >>

\* The scoped RPC gave an error value and the text search found rows.
C5_Witness ==
  /\ call.fn = "semanticSearch"
  /\ ~EmptyQueryEmbedding
  /\ env.probe = "ok"
  /\ env.hybrid = "error"
  /\ env.text = "ok"
  /\ Len(ret.value) > 0
  /\ ret.log = << "hybrid_search", "hybrid_search", "textSearch" >>

\* C6: a name that is not a registered tool gives success false with the
\* error "Unknown tool: <name>", and no exception.
C6_UnknownToolNamed ==
  (ExecuteToolReturned /\ call.toolCall.name \notin AvailableTools) =>
    ret = Return([ success |-> FALSE, error |-> "Unknown tool: " \o call.toolCall.name ],
                 << >>)

C6_Witness ==
  /\ ExecuteToolReturned
  /\ call.toolCall.name = "unknown_tool"
  /\ ret.kind = "return"
  /\ ret.value.error = "Unknown tool: unknown_tool"

MissingRequiredParameter ==
  ~(RequiredParameters(call.toolCall.name) \subseteq DOMAIN call.toolCall.parameters)

\* C7: a registered tool called without one of its required parameters is
\* rejected: the result has success false and an error message.
C7_MissingParameterRejected ==
  (ExecuteToolReturned /\ call.toolCall.name \in AvailableTools /\ MissingRequiredParameter) =>
    /\ ret.kind = "return"
    /\ ret.value.success = FALSE
    /\ "error" \in DOMAIN ret.value

\* The provider and every store request of the outstanding call succeeded.
WorkingStore ==
  /\ env.probe = "ok" /\ env.hybrid = "ok" /\ env.text = "ok"
  /\ env.source = "ok" /\ env.debugCheck = "ok" /\ env.debugHybrid = "ok"

\* C8: each of the five tool names is dispatched to its executor.  With
\* valid parameters and a working store the result has success true;
\* get_action_items carries data.action_items and find_similar_discussions
\* carries data.similar_discussions.
C8_FiveToolsDispatched ==
  (/\ ExecuteToolReturned
   /\ call.toolCall.name \in ToolNames
   /\ ~MissingRequiredParameter
   /\ WorkingStore) =>
    /\ ret.kind = "return"
    /\ ret.value.success = TRUE
    /\ call.toolCall.name = "get_action_items" =>
         "action_items" \in DOMAIN ret.value.data
    /\ call.toolCall.name = "find_similar_discussions" =>
         "similar_discussions" \in DOMAIN ret.value.data

\* The source item of the outstanding findSimilarKnowledge is not in the
\* store or has no embedding.
NoSourceEmbedding ==
  \/ call.knowledgeId \notin DOMAIN knowledge
  \/ IsNull(knowledge[call.knowledgeId].embedding)

\* C10: findSimilarKnowledge for a missing source item, or one whose
\* embedding is null, returns the empty list, without the hybrid_search RPC
\* and without a text search.
C10_NoEmbeddingNoSearch ==
  (call.fn = "findSimilarKnowledge" /\ NoSourceEmbedding) =>
    /\ ret.kind = "return"
    /\ ret.value = << >>
    /\ \A i \in DOMAIN ret.log : ret.log[i] \notin { "hybrid_search", "textSearch" }

\* The source item is stored without an embedding beside items that have
\* one, and the store answers every request.
C10_Witness ==
  /\ call.fn = "findSimilarKnowledge"
  /\ call.knowledgeId \in DOMAIN knowledge
  /\ IsNull(knowledge[call.knowledgeId].embedding)
  /\ \E id \in DOMAIN knowledge : ~IsNull(knowledge[id].embedding)
  /\ env.source = "ok" /\ env.hybrid = "ok"
  /\ ret = Return(<< >>, << "select" >>)

----------------------------------------------------------------------------
(* Properties of the background enrichment (SchedulerSpec)                 *)

\* C2: at most one enrichment run is active at any time; a timer firing
\* during a run starts no second run and issues no second fetch.
C2_SingleActiveRun ==
  Cardinality({ r \in Runs : Active(r) }) <= 1

IsPrefix(s, t) == Len(s) <= Len(t) /\ s = SubSeq(t, 1, Len(s))

\* C9: within a run every fetched item is attempted exactly once and in
\* fetched order, whatever happened to the items before it: the attempts
\* are always a prefix of the batch, and the whole batch when the run ends.
C9_EveryItemAttemptedInOrder ==
  \A r \in Runs :
    /\ IsPrefix(attempted[r], Ids(batch[r]))
    /\ pc[r] \in { "enriching", "updating" } => Len(attempted[r]) = idx[r]
    /\ (pc[r] = "done" /\ batch[r] # << >>) => attempted[r] = Ids(batch[r])

\* A finished run of two items whose first item failed.
C9_Witness ==
  \E r \in Runs :
    /\ pc[r] = "done"
    /\ Len(batch[r]) >= 2
    /\ failed[r] # << >>
    /\ failed[r][1] = batch[r][1].id
    /\ attempted[r] = Ids(batch[r])

----------------------------------------------------------------------------
(* Properties of the store function hybrid_search (Spec)                   *)

\* The outstanding semanticSearch returned the rows of hybrid_search.
HybridSearchAnswered ==
  /\ call.fn = "semanticSearch"
  /\ ret.log = << "hybrid_search", "hybrid_search" >>

\* C11: every row hybrid_search returns for threshold t whose keyword_match
\* is not true has similarity >= t, similarity being 1 minus the cosine
\* distance, so that a row whose embedding is the query's has similarity 1.
C11_ThresholdCorrect ==
  HybridSearchAnswered =>
    \A i \in DOMAIN ret.value :
      LET r == ret.value[i]
      IN  /\ r.keyword_match # Some(TRUE) => r.similarity >= call.threshold
          /\ knowledge[r.id].embedding = env.embedding => r.similarity = 100

\* A row returned on its similarity alone, equal to the query's embedding,
\* while another embedded row of the store stayed below the threshold.
C11_Witness ==
  /\ HybridSearchAnswered
  /\ call.limit = 10
  /\ \E i \in DOMAIN ret.value :
       /\ ret.value[i].keyword_match # Some(TRUE)
       /\ knowledge[ret.value[i].id].embedding = env.embedding
  /\ \E id \in DOMAIN knowledge :
       /\ ~IsNull(knowledge[id].embedding)
       /\ \A i \in DOMAIN ret.value : ret.value[i].id # id

\* The stored row is inside the scope of the outstanding search.
InScope(row) == IsNull(call.meetingId) \/ row.meeting_id = ValueOf(call.meetingId)

\* C12: an in-scope item whose keywords trigram-match the query text is in
\* the hybrid search result whatever its vector distance, in every state
\* enrichment can leave an item in, keywords without embedding included.
C12_KeywordMatchQualifies ==
  (HybridSearchAnswered /\ call.limit >= Cardinality(DOMAIN knowledge)) =>
    \A id \in DOMAIN knowledge :
      (/\ InScope(knowledge[id])
       /\ ~IsNull(knowledge[id].keywords)
       /\ MatchesAnyKeyword(call.query, ValueOf(knowledge[id].keywords)))
      => \E i \in DOMAIN ret.value : ret.value[i].id = id

----------------------------------------------------------------------------
(* Properties of the tool executors (Spec)                                 *)

\* The parameter of the outstanding tool call, undefined when not given.
ToolParam(key) == Param(call.toolCall.parameters, key)

\* The search of the outstanding summarize_topic call found nothing.
SummarySearchEmpty ==
  /\ ExecuteToolReturned
  /\ call.toolCall.name = "summarize_topic"
  /\ semanticSearch(knowledge, ToolParam("topic"), NULL, summary_limit,
                    summary_threshold, env).value = << >>

\* C13: summarize_topic whose search yields nothing returns success true,
\* the summary 'No discussions found about "<topic>" in this meeting.' and
\* an empty related_items list; it never reports success false for that.
C13_NoDiscussionsSentinel ==
  SummarySearchEmpty =>
    /\ ret.kind = "return"
    /\ ret.value.success = TRUE
    /\ ret.value.data.summary =
         "No discussions found about \"" \o JsString(ToolParam("topic"))
           \o "\" in this meeting."
    /\ ret.value.data.related_items = << >>

\* Topic "unicorns" on a store that holds items, provider and store working.
C13_Witness ==
  /\ SummarySearchEmpty
  /\ call.toolCall.parameters = [ topic |-> "unicorns" ]
  /\ knowledge # << >>
  /\ ~EmptyQueryEmbedding
  /\ WorkingStore
  /\ ret.value.data.summary = "No discussions found about \"unicorns\" in this meeting."
  /\ ret.value.data.related_items = << >>

\* What the search of the outstanding recall_decisions call returned.
RecallSearchResults ==
  semanticSearch(knowledge, Some("decision about " \o JsString(ToolParam("topic"))), NULL,
                 recall_limit, recall_threshold, env).value

\* A search result that counts as a decision: a summary, or a content that
\* contains decision, decided or agreed in any case.
CountsAsDecision(r) ==
  \/ r.content_type = "summary"
  \/ \E word \in { "decision", "decided", "agreed" } : Includes(ToLowerCase(r.content), word)

RecallDecisionsSucceeded ==
  /\ ExecuteToolReturned
  /\ call.toolCall.name = "recall_decisions"
  /\ ret.kind = "return"
  /\ ret.value.success

\* The store of the summary "We decided to cap the budget at $50k" and one
\* unrelated item, asked for "budget", the provider answering the query with
\* a vector near the summary's.
BudgetScenario ==
  /\ DOMAIN knowledge = { "k1", "k2" }
  /\ knowledge["k1"] = Pool["k1"]
  /\ call.toolCall.parameters = [ topic |-> "budget" ]
  /\ ~EmptyQueryEmbedding
  /\ CosineDistance(ValueOf(Pool["k1"].embedding), ValueOf(env.embedding))
       < 100 - recall_threshold
  /\ WorkingStore

C15_ProviderUnavailableHidden ==
  (ExecuteToolReturned /\ EmptyQueryEmbedding) =>
    /\ \A q \in Queries : generateEmbedding(Some(q), env) = << >>
    /\ (call.toolCall.name \in AvailableTools /\ WorkingStore) =>
         /\ ret.kind = "return"
         /\ ret.value.success = TRUE
         /\ \E i \in DOMAIN ret.log : ret.log[i] = "textSearch"
         /\ \A i \in DOMAIN ret.log : ret.log[i] # "hybrid_search"

\* search_meeting_knowledge without provider key finding items by text.
C15_Witness ==
  /\ ExecuteToolReturned
  /\ call.toolCall.name = "search_meeting_knowledge"
  /\ ~env.hasKey
  /\ WorkingStore
  /\ ret.value.success = TRUE
  /\ ret.value.data.total_found > 0

----------------------------------------------------------------------------
(* Properties of the enrichment of stored items (SchedulerSpec)            *)

\* The fields enrichment has no business with.
CreationFields(row) ==
  [ content |-> row.content, content_type |-> row.content_type,
    source |-> row.source, meeting_id |-> row.meeting_id ]

\* C16: enrichment leaves content, content type, source and meeting of every
\* item as they were at creation, after any sequence of runs and item
\* updates, successful or failed.
C16_EnrichmentFrame ==
  \A id \in DOMAIN knowledge :
    /\ knowledge[id].id = id
    /\ CreationFields(knowledge[id]) = CreationFields(Pool[id])

\* A finished run in which one item failed and another was stored with an
\* embedding, keywords and summary.
C16_Witness ==
  /\ \E r \in Runs : pc[r] = "done" /\ failed[r] # << >>
  /\ \E id \in DOMAIN knowledge :
       /\ ~IsNull(knowledge[id].embedding)
       /\ ~IsNull(knowledge[id].keywords)
       /\ ~IsNull(knowledge[id].summary)
       /\ knowledge[id].summary # Some(knowledge[id].content)
       /\ CreationFields(knowledge[id]) = CreationFields(Pool[id])

\* One await of run r settles: the fetch, the provider calls or the update.
RunStep(r) ==
  \/ FetchFailed(r)
  \/ FetchReturned(r)
  \/ Enrich(r)
  \/ UpdateStored(r)
  \/ UpdateFailed(r)

\* The scheduler when every request a run awaits is answered in the end.
SchedulerFairSpec ==
  /\ SchedulerInit
  /\ [][SchedulerNext]_vars
  /\ \A r \in Runs : WF_vars(RunStep(r))

\* A timer fires for run r after every earlier run has ended.
TriggerAfterRuns(r) ==
  /\ pc[r] = "idle"
  /\ pc'[r] # "idle"
  /\ \A q \in Runs : q < r => pc[q] = "done"

\* C17: every run returns the scheduler to idle.  The guard is set only
\* while a run is between its start and its end, every run ends on every
\* path with the guard released, and a trigger that arrives after the runs
\* before it have ended starts a new run.
C17_RunReturnsToIdle ==
  /\ [](\A r \in Runs : isProcessing[InstanceOf(r)] => Active(r))
  /\ \A r \in Runs : Active(r) ~> (pc[r] = "done" /\ ~isProcessing[InstanceOf(r)])
  /\ [][\A r \in Runs : TriggerAfterRuns(r) => pc'[r] = "fetching"]_vars

\* A second run fetching after the first one ended on a failed fetch.
C17_Witness ==
  /\ pc[1] = "done"
  /\ batch[1] = << >>
  /\ ~isProcessing[InstanceOf(1)]
  /\ pc[2] = "fetching"
  /\ fetches = 2

\* Run r hands one more item to processKnowledgeItem in this step.
StartsItem(r) == attempted'[r] # attempted[r]

\* C18: within a run the items are processed one after the other.  An item
\* is started alone, at the fetch's answer or in the step that settles the
\* update of the item before it; the item in flight is the last one started;
\* and the store is written only by a run that is updating an item of a
\* batch, so an empty batch or a failed fetch updates nothing.
C18_SequentialItems ==
  /\ [][\A r \in Runs : StartsItem(r) =>
          /\ Len(attempted'[r]) = Len(attempted[r]) + 1
          /\ \/ pc[r] = "fetching" /\ attempted[r] = << >>
             \/ pc[r] = "updating"]_vars
  /\ [](\A r \in Runs :
          /\ pc[r] \in { "enriching", "updating" } =>
               /\ idx[r] = Len(attempted[r])
               /\ attempted[r][idx[r]] = batch[r][idx[r]].id
          /\ (pc[r] = "done" /\ batch[r] = << >>) => attempted[r] = << >>)
  /\ [][knowledge' # knowledge =>
          \E r \in Runs : pc[r] = "updating" /\ batch[r] # << >> /\ pc'[r] # "updating"]_vars

\* The second item of a batch in flight after the first one was stored.
C18_Witness ==
  \E r \in Runs :
    /\ pc[r] = "updating"
    /\ idx[r] = 2
    /\ Len(batch[r]) = 2
    /\ failed[r] = << >>
    /\ ~IsNull(knowledge[batch[r][1].id].keywords)

----------------------------------------------------------------------------
(* Properties of the retrieval engine's requests and context (Spec)        *)

\* How often request `name` appears in the log of the outstanding call.
Issued(name) == Cardinality({ i \in DOMAIN ret.log : ret.log[i] = name })

\* C19: one semanticSearch issues at most one hybrid_search RPC and at most
\* one textSearch query, and no textSearch once a hybrid_search succeeded.
C19_OneAttemptEach ==
  call.fn = "semanticSearch" =>
    /\ Issued("hybrid_search") <= 1
    /\ Issued("textSearch") <= 1
    /\ (env.probe = "ok" /\ Issued("hybrid_search") > 0) => Issued("textSearch") = 0

\* What the search of the outstanding buildAIContext call returned.
ContextSearchResults ==
  semanticSearch(knowledge, Some(call.query), call.meetingId, context_limit,
                 default_threshold, env).value

ContextHeader == "Meeting Context for: \"" \o call.query \o "\"\n\n"

ContextLine(item) == "[" \o ToUpperCase(item.content_type) \o "] " \o item.content \o "\n"

\* The lines of the first k items, and the tokens counted for the header and
\* these lines.
RECURSIVE ContextLines(_, _)
ContextLines(items, k) ==
  IF k = 0 THEN "" ELSE ContextLines(items, k - 1) \o ContextLine(items[k])

RECURSIVE TokensCounted(_, _)
TokensCounted(items, k) ==
  IF k = 0 THEN estimateTokens(ContextHeader)
  ELSE TokensCounted(items, k - 1) + estimateTokens(ContextLine(items[k]))

\* The context is the header and the whole lines of the first k results, k
\* being where the first result that would exceed the budget stands.
ContextIsPrefix(items, k) ==
  /\ ret.value = ContextHeader \o ContextLines(items, k)
  /\ \A j \in 1..k : TokensCounted(items, j) <= call.maxTokens
  /\ k < Len(items) => TokensCounted(items, k + 1) > call.maxTokens

\* C20: when results exist buildAIContext emits the header and whole
\* "[TYPE] content" lines of a prefix of the ranked results, in ranking
\* order; it stops at the first item that would exceed the budget, takes no
\* later item even if that one would fit, and cuts no item.
C20_ContextIsRankedPrefix ==
  (call.fn = "buildAIContext" /\ ContextSearchResults # << >>) =>
    \E k \in 0..Len(ContextSearchResults) : ContextIsPrefix(ContextSearchResults, k)

\* The first result does not fit, a later and shorter one would: the context
\* is the header alone.
C20_Witness ==
  /\ call.fn = "buildAIContext"
  /\ Len(ContextSearchResults) >= 2
  /\ ret.value = ContextHeader
  /\ \E j \in 2..Len(ContextSearchResults) :
       estimateTokens(ContextHeader) + estimateTokens(ContextLine(ContextSearchResults[j]))
         <= call.maxTokens

----------------------------------------------------------------------------
(* Properties of the ranking and the limits of search results (Spec)       *)

\* The place of a keyword_match value under DESC NULLS LAST.
KeywordMatchOrder(r) ==
  IF r.keyword_match = Some(TRUE) THEN 2 ELSE IF r.keyword_match = Some(FALSE) THEN 1 ELSE 0

\* Row a stands before row b: higher similarity, then keyword match, then
\* the more recent row.
RanksBefore(a, b) ==
  \/ a.similarity > b.similarity
  \/ a.similarity = b.similarity /\ KeywordMatchOrder(a) > KeywordMatchOrder(b)
  \/ /\ a.similarity = b.similarity
     /\ KeywordMatchOrder(a) = KeywordMatchOrder(b)
     /\ a.created_at > b.created_at

\* The stored rows that satisfy the WHERE clause for the outstanding search,
\* as the SELECT list shows them.
QualifyingRows ==
  { HybridRow(knowledge[id], ValueOf(env.embedding), call.query) :
      id \in { j \in DOMAIN knowledge :
                 Qualifies(knowledge[j], ValueOf(env.embedding), call.query,
                           call.meetingId, call.threshold) } }

Returned(rows) == { rows[i] : i \in DOMAIN rows }

Min(a, b) == IF a < b THEN a ELSE b

\* C21: hybrid_search returns the first match_count rows of the qualifying
\* set ordered by similarity descending, then keyword_match descending, then
\* created_at descending: at most match_count rows, sorted by that key, and
\* no omitted qualifying row ranks before a returned one.
C21_RankedLimitedResult ==
  HybridSearchAnswered =>
    /\ Len(ret.value) = Min(call.limit, Cardinality(QualifyingRows))
    /\ Returned(ret.value) \subseteq QualifyingRows
    /\ \A i, j \in DOMAIN ret.value : i < j => RanksBefore(ret.value[i], ret.value[j])
    /\ \A omitted \in QualifyingRows \ Returned(ret.value) :
         \A i \in DOMAIN ret.value : ~RanksBefore(omitted, ret.value[i])

\* Limit 1 on rows of equal similarity: the row returned matches a keyword,
\* and a more recent row without keyword match was left out.
C21_Witness ==
  /\ HybridSearchAnswered
  /\ call.limit = 1
  /\ Len(ret.value) = 1
  /\ ret.value[1].keyword_match = Some(TRUE)
  /\ \E omitted \in QualifyingRows :
       /\ omitted.similarity = ret.value[1].similarity
       /\ omitted.keyword_match = Some(FALSE)
       /\ omitted.created_at > ret.value[1].created_at
  /\ \E omitted \in QualifyingRows :
       /\ omitted.similarity = ret.value[1].similarity
       /\ omitted.keyword_match = NULL

\* The limit of the outstanding search_meeting_knowledge call.
SearchLimit ==
  IF "limit" \in DOMAIN call.toolCall.parameters
    THEN call.toolCall.parameters.limit ELSE 5

\* What the search of the outstanding search_meeting_knowledge call returned.
KnowledgeSearchResults ==
  semanticSearch(knowledge, ToolParam("query"), NULL, SearchLimit, search_threshold, env).value

SearchKnowledgeSucceeded ==
  /\ ExecuteToolReturned
  /\ call.toolCall.name = "search_meeting_knowledge"
  /\ ret.kind = "return"
  /\ ret.value.success

\* The search results the tool may return: all, or those of the given type.
OfRequestedType(r) ==
  IsNull(ToolParam("content_type")) \/ r.content_type = ValueOf(ToolParam("content_type"))

\* C22: search_meeting_knowledge returns at most `limit` results (5 when no
\* limit is given), in the order of the search; when content_type is given
\* every result has that type, and total_found is the number of search
\* results of that type.
C22_SearchResultsCapped ==
  SearchKnowledgeSucceeded =>
    LET results == ret.value.data.results
        found == KnowledgeSearchResults
        wanted == { i \in DOMAIN found : OfRequestedType(found[i]) }
    IN  /\ Len(results) <= SearchLimit
        /\ Len(results) = Min(SearchLimit, Cardinality(wanted))
        /\ \A i \in DOMAIN results :
             /\ results[i].type = found[CHOOSE k \in wanted :
                                          Cardinality({ j \in wanted : j < k }) = i - 1].content_type
             /\ results[i].content = found[CHOOSE k \in wanted :
                                             Cardinality({ j \in wanted : j < k }) = i - 1].content
             /\ OfRequestedType([ content_type |-> results[i].type ])
        /\ ret.value.data.total_found = Cardinality(wanted)

\* No limit given and six stored rows that all match: five are returned.
C22_Witness ==
  /\ SearchKnowledgeSucceeded
  /\ call.toolCall.parameters = [ query |-> "budget" ]
  /\ ret.log = << "hybrid_search", "hybrid_search" >>
  /\ Cardinality({ id \in DOMAIN knowledge :
                     Qualifies(knowledge[id], ValueOf(env.embedding), "budget", NULL,
                               search_threshold) }) = 6
  /\ Len(ret.value.data.results) = 5

----------------------------------------------------------------------------
(* Properties of the stored enrichment (SchedulerSpec)                     *)

\* A keyword as the data model wants it: lowercase, trimmed, not empty.
IsKeywordTerm(k) == k # "" /\ k = Trim(k) /\ k = ToLowerCase(k)

\* C23: after any sequence of enrichments the stored keywords of every item
\* are absent or a list of at most 7 lowercase, trimmed, non-empty terms,
\* whether they came from the provider's completion or from the local
\* extraction.
C23_KeywordsWellFormed ==
  \A id \in DOMAIN knowledge :
    ~IsNull(knowledge[id].keywords) =>
      LET keywords == ValueOf(knowledge[id].keywords)
      IN  /\ Len(keywords) <= 7
          /\ \A i \in DOMAIN keywords : IsKeywordTerm(keywords[i])

----------------------------------------------------------------------------
(* The enrichment timer firing again and again: setInterval of             *)
(* startBackgroundProcessing.  One firing is followed here at a time, the  *)
(* ordinary schedule in which a run ends before the next interval, and the *)
(* store answers every fetch.                                              *)

Timer == 1

\* The interval elapses after a firing has ended: the firing is forgotten
\* with its bookkeeping, and the timer is ready to fire again.
Rearm(r) ==
  /\ pc[r] = "done"
  /\ pc' = [ pc EXCEPT ![r] = "idle" ]
  /\ batch' = [ batch EXCEPT ![r] = << >> ]
  /\ idx' = [ idx EXCEPT ![r] = 0 ]
  /\ enriched' = [ enriched EXCEPT ![r] = NULL ]
  /\ attempted' = [ attempted EXCEPT ![r] = << >> ]
  /\ failed' = [ failed EXCEPT ![r] = << >> ]
  /\ fetches' = 0
  /\ UNCHANGED << knowledge, retrievalVars, inviteVars, signalingVars, isProcessing >>

\* Six items wait for their enrichment, one more than a fetch returns.
RecurringInit ==
  /\ knowledge = [ i \in ItemIds |-> Unenriched(Pool[i]) ]
  /\ call = NoCall
  /\ env = NoEnv
  /\ ret = Return(<< >>, << >>)
  /\ SchedulerIdle
  /\ PlatformIdle

RecurringNext ==
  \/ ProcessKnowledge(Timer)
  \/ FetchReturned(Timer)
  \/ Enrich(Timer)
  \/ UpdateStored(Timer)
  \/ UpdateFailed(Timer)
  \/ Rearm(Timer)

\* The scheduler keeps running: the timer fires and is rearmed, and every
\* await of a run settles.
RecurringFairSpec ==
  /\ RecurringInit
  /\ [][RecurringNext]_vars
  /\ WF_vars(ProcessKnowledge(Timer))
  /\ WF_vars(Rearm(Timer))
  /\ WF_vars(RunStep(Timer))

\* Item id has been handed to processKnowledgeItem by the firing in flight
\* or the one that just ended.
Attempted(id) == \E r \in Runs : \E i \in DOMAIN attempted[r] : attempted[r][i] = id

\* C24: no starvation in enrichment.  As long as the scheduler keeps running
\* every item whose embedding is null is eventually fetched and attempted by
\* some run, also when the enrichment of more recent items keeps yielding no
\* embedding.
C24_NoStarvation ==
  \A id \in ItemIds :
    (id \in DOMAIN knowledge /\ IsNull(knowledge[id].embedding)) ~> Attempted(id)

----------------------------------------------------------------------------
(* Properties of concurrent enrichments of one item (SchedulerSpec)        *)

\* C25: once the embedding of an item is stored as a vector, no later
\* enrichment step sets it back to null, under any interleaving of the
\* processKnowledgeItem calls that work on the item.
C25_EmbeddingNeverCleared ==
  [][\A id \in DOMAIN knowledge :
       ~IsNull(knowledge[id].embedding) => ~IsNull(knowledge'[id].embedding)]_vars

----------------------------------------------------------------------------
(* Properties of the tool layer across meetings (Spec)                     *)

\* The stored rows of the meeting the outstanding tool call was made for.
OwnMeetingRows ==
  [ id \in { j \in DOMAIN knowledge : knowledge[j].meeting_id = call.meetingId } |->
      knowledge[id] ]

\* The items a tool result carries, whichever list its data holds.
ReturnedItems ==
  IF ret.kind # "return" \/ "data" \notin DOMAIN ret.value THEN << >>
  ELSE LET data == ret.value.data
       IN  IF "results" \in DOMAIN data THEN data.results
           ELSE IF "decisions" \in DOMAIN data THEN data.decisions
           ELSE IF "related_items" \in DOMAIN data THEN data.related_items
           ELSE << >>

MeetingScopedTools == { "search_meeting_knowledge", "recall_decisions", "summarize_topic" }

\* C26: every item search_meeting_knowledge, recall_decisions and
\* summarize_topic return for a service created for meeting M is an item of
\* meeting M, and the result is the one the same call gives on the store
\* without the items of other meetings.
C26_MeetingIsolation ==
  (ExecuteToolReturned /\ call.toolCall.name \in MeetingScopedTools) =>
    /\ \A i \in DOMAIN ReturnedItems :
         \E id \in DOMAIN OwnMeetingRows :
           OwnMeetingRows[id].content = ReturnedItems[i].content
    /\ ret.value = executeTool(OwnMeetingRows, call.meetingId, call.toolCall, env).value

\* The outstanding executeTool call ended in the default branch of the
\* switch: no executor was run for the name.
NotDispatched ==
  /\ ret.kind = "return"
  /\ ret.value = [ success |-> FALSE, error |-> "Unknown tool: " \o call.toolCall.name ]
  /\ ret.log = << >>

\* C27: the names getAvailableTools advertises are the names executeTool
\* dispatches to an executor: every advertised tool is executed, and every
\* name that is executed is advertised.
C27_RegistryConsistent ==
  ExecuteToolReturned => (call.toolCall.name \in AvailableTools <=> ~NotDispatched)

\* The advertised tool summarize_topic ran its executor and found items.
C27_Witness ==
  /\ ExecuteToolReturned
  /\ call.toolCall.name = "summarize_topic"
  /\ call.toolCall.name \in AvailableTools
  /\ ret.value.success = TRUE
  /\ Len(ret.value.data.related_items) > 0

\* C28: findSimilarKnowledge(id, limit) returns at most `limit` items in
\* every store state, also when other items have the embedding of the
\* source item.
C28_SimilarWithinLimit ==
  call.fn = "findSimilarKnowledge" => Len(ret.value) <= call.limit

----------------------------------------------------------------------------
(* routes/secure-invite-tokens.ts: POST /public/invite-tokens/consume.     *)
(* A request is followed from await to await: received, its select         *)
(* answered, its update answered.                                          *)

MaxConsumers == 2
Consumers == 1..MaxConsumers
Users == { "u1", "u2" }

\* An invite token as issued, not used yet.
InviteRow(active, expires) ==
  [ token |-> "T1", role |-> "member", is_active |-> active, expires_at |-> expires,
    used_at |-> NULL, used_by_user_id |-> NULL ]

\* The table with token T1 active or disabled, expired or not.
InviteTables ==
  { [ t \in { "T1" } |-> InviteRow(active, expires) ] :
      active \in BOOLEAN, expires \in { 0, 100 } }

NoRequest == [ pc |-> "idle", token |-> NULL, user_id |-> NULL, status |-> 0 ]

\* res.status(code).json(...): the request is over.
Respond(c, code) == consume' = [ consume EXCEPT ![c].pc = "done", ![c].status = code ]

\* The request arrives: 400 without token or user_id, else the select is sent.
ConsumeReceived(c) ==
  /\ consume[c].pc = "idle"
  /\ \E token \in { NULL, Some("T1"), Some("T9") }, user_id \in { NULL } \union { Some(u) : u \in Users } :
       consume' = [ consume EXCEPT ![c] =
                      IF IsNull(token) \/ IsNull(user_id)
                        THEN [ pc |-> "done", token |-> token, user_id |-> user_id, status |-> 400 ]
                        ELSE [ pc |-> "selecting", token |-> token, user_id |-> user_id,
                               status |-> 0 ] ]
  /\ UNCHANGED << knowledge, retrievalVars, schedulerVars, signalingVars, invite_tokens, now >>

\* .eq('token', token).eq('is_active', true).is('used_at', null)
\* .gt('expires_at', now).single()
SelectsValidToken(token) ==
  /\ token \in DOMAIN invite_tokens
  /\ invite_tokens[token].is_active
  /\ IsNull(invite_tokens[token].used_at)
  /\ invite_tokens[token].expires_at > now

\* The select is answered: no valid row or an error value gives 400, an
\* exception 500, a valid row sends the update.
ConsumeSelected(c) ==
  /\ consume[c].pc = "selecting"
  /\ \E outcome \in Outcomes :
       IF outcome = "throw" THEN Respond(c, 500)
       ELSE IF outcome = "error" \/ ~SelectsValidToken(ValueOf(consume[c].token))
         THEN Respond(c, 400)
       ELSE consume' = [ consume EXCEPT ![c].pc = "updating" ]
  /\ UNCHANGED << knowledge, retrievalVars, schedulerVars, signalingVars, invite_tokens, now >>

\* The update is answered: .update({used_at, used_by_user_id}).eq('token',
\* token) writes the row and the request answers success, or fails with 500.
ConsumeUpdated(c) ==
  /\ consume[c].pc = "updating"
  /\ \E outcome \in Outcomes :
       IF outcome = "ok"
         THEN /\ invite_tokens' =
                   [ invite_tokens EXCEPT ![ValueOf(consume[c].token)] =
                       [ @ EXCEPT !.used_at = Some(now),
                                  !.used_by_user_id = consume[c].user_id ] ]
              /\ now' = now + 1
              /\ Respond(c, 200)
         ELSE /\ Respond(c, 500)
              /\ UNCHANGED << invite_tokens, now >>
  /\ UNCHANGED << knowledge, retrievalVars, schedulerVars, signalingVars >>

InviteInit ==
  /\ knowledge = EmptyObject
  /\ call = NoCall
  /\ env = NoEnv
  /\ ret = Return(<< >>, << >>)
  /\ SchedulerIdle
  /\ invite_tokens \in InviteTables
  /\ consume = [ c \in Consumers |-> NoRequest ]
  /\ now = 1
  /\ rooms = EmptyObject
  /\ participants = EmptyObject
  /\ sockets = EmptyObject

InviteNext ==
  \E c \in Consumers :
    \/ ConsumeReceived(c)
    \/ ConsumeSelected(c)
    \/ ConsumeUpdated(c)

InviteSpec == InviteInit /\ [][InviteNext]_vars

\* The requests that were answered success: true for token t.
Succeeded(t) == { c \in Consumers : consume[c].status = 200 /\ consume[c].token = Some(t) }

\* C29: an invite token is consumed at most once.  Under any interleaving of
\* consume requests for the same token at most one receives success: true,
\* and used_by_user_id is written once and never overwritten.
C29_TokenConsumedOnce ==
  /\ [](\A t \in DOMAIN invite_tokens : Cardinality(Succeeded(t)) <= 1)
  /\ [][\A t \in DOMAIN invite_tokens :
          ~IsNull(invite_tokens[t].used_by_user_id) =>
            invite_tokens'[t].used_by_user_id = invite_tokens[t].used_by_user_id]_vars

----------------------------------------------------------------------------
(* index.ts: the signaling rooms.  POST /api/rooms and the socket handlers *)
(* join-room and disconnect run without an await, each in one step.        *)

MaxSockets == 2
SocketIds == 1..MaxSockets
RoomIds == { "A", "B" }

\* A room id that POST /api/rooms never gave out.
UnknownRoom == "Z"

NewSocket == [ state |-> "new", joined |-> {} ]

\* POST /api/rooms: a room with a fresh id and no participants.
CreateRoom ==
  /\ \E roomId \in RoomIds \ DOMAIN rooms :
       rooms' = [ id \in DOMAIN rooms \union { roomId } |->
                    IF id = roomId THEN [ id |-> roomId, participants |-> << >> ]
                    ELSE rooms[id] ]
  /\ UNCHANGED << knowledge, retrievalVars, schedulerVars, inviteVars, participants, sockets >>

\* io.on('connection')
Connect(s) ==
  /\ sockets[s].state = "new"
  /\ sockets' = [ sockets EXCEPT ![s].state = "connected" ]
  /\ UNCHANGED << knowledge, retrievalVars, schedulerVars, inviteVars, rooms, participants >>

\* room.participants.filter(p => p.id !== userId)
WithoutUser(list, userId) == SelectSeq(list, LAMBDA p : p.id # userId)

\* socket.on('join-room'): the socket joins the socket.io room, its
\* participant record replaces the one it had, and the stored room, when
\* there is one, gets the record in place of the user's earlier entry.
\* (name and joinedAt of the record play no part and are left out.)
JoinRoom(s, roomId, userId) ==
  /\ sockets[s].state = "connected"
  /\ LET participant == [ id |-> userId, socketId |-> s, roomId |-> roomId ]
     IN  /\ sockets' = [ sockets EXCEPT ![s].joined = @ \union { << roomId, userId >> } ]
         /\ participants' = [ k \in DOMAIN participants \union { s } |->
                                IF k = s THEN participant ELSE participants[k] ]
         /\ rooms' = IF roomId \in DOMAIN rooms
                       THEN [ rooms EXCEPT ![roomId].participants =
                                Append(WithoutUser(@, userId), participant) ]
                       ELSE rooms
  /\ UNCHANGED << knowledge, retrievalVars, schedulerVars, inviteVars >>

\* socket.on('disconnect'): the socket leaves its socket.io rooms; its
\* participant record, when it has one, is deleted and the user is filtered
\* out of the room that record names.
Disconnect(s) ==
  /\ sockets[s].state = "connected"
  /\ sockets' = [ sockets EXCEPT ![s] = [ state |-> "closed", joined |-> {} ] ]
  /\ IF s \in DOMAIN participants
       THEN LET roomId == participants[s].roomId
                userId == participants[s].id
            IN  /\ participants' = [ k \in DOMAIN participants \ { s } |-> participants[k] ]
                /\ rooms' = IF roomId \in DOMAIN rooms
                              THEN [ rooms EXCEPT ![roomId].participants =
                                       WithoutUser(@, userId) ]
                              ELSE rooms
       ELSE UNCHANGED << participants, rooms >>
  /\ UNCHANGED << knowledge, retrievalVars, schedulerVars, inviteVars >>

SignalingInit ==
  /\ knowledge = EmptyObject
  /\ call = NoCall
  /\ env = NoEnv
  /\ ret = Return(<< >>, << >>)
  /\ SchedulerIdle
  /\ invite_tokens = EmptyObject
  /\ consume = EmptyObject
  /\ now = 0
  /\ rooms = EmptyObject
  /\ participants = EmptyObject
  /\ sockets = [ s \in SocketIds |-> NewSocket ]

SignalingNext ==
  \/ CreateRoom
  \/ \E s \in SocketIds :
       \/ Connect(s)
       \/ \E roomId \in DOMAIN rooms \union { UnknownRoom }, userId \in Users :
            JoinRoom(s, roomId, userId)
       \/ Disconnect(s)

SignalingSpec == SignalingInit /\ [][SignalingNext]_vars

\* User userId has a connected socket that joined room roomId.
Present(roomId, userId) ==
  \E s \in SocketIds :
    sockets[s].state = "connected" /\ << roomId, userId >> \in sockets[s].joined

Entries(roomId, userId) ==
  Len(SelectSeq(rooms[roomId].participants, LAMBDA p : p.id = userId))

\* C30: for every room created through POST /api/rooms the stored
\* participants list holds exactly one entry for each user that has a
\* connected socket joined to the room and none for any other user, after
\* any sequence of join-room and disconnect events.
C30_RoomMembershipConsistent ==
  \A roomId \in DOMAIN rooms, userId \in Users :
    Entries(roomId, userId) = IF Present(roomId, userId) THEN 1 ELSE 0

====
